---- MODULE Spec2Model ----
(***************************************************************************)
(* A model of cccatalog/api/views/image_views.py: the search endpoint      *)
(* (SearchImages.get), the watermark endpoint (Watermark.get) and the URL  *)
(* normalizer (_add_protocol).                                             *)
(*                                                                         *)
(* Strings are sequences of one-character strings, so that prefixing,      *)
(* substring containment and scheme parsing are computed, not assumed.     *)
(* One request is in flight at a time: the handlers share no mutable       *)
(* state, so interleaving requests adds no behaviour.                      *)
(***************************************************************************)
EXTENDS Integers, Sequences, FiniteSets, TLC

VARIABLES
    pc,                 \* position of the handler in flight
    settings,           \* cccatalog.settings: PROXY_THUMBS, PROXY_ALL
    urllib_legacy,      \* TRUE: urlsplit of Python <= 3.8 (port-number rule)
    request,            \* validated query parameters of the search request
    index,              \* the search index: ranked hits and total hit count
    search_results,     \* what search_controller.search returned
    results,            \* SearchImages.get: results
    to_validate,        \* SearchImages.get: to_validate
    validated,          \* validate_images has been called in this request
    serialized_results, \* ImageSerializer(results, many=True).data, as produced
    pagination,         \* SearchImages.get: natural_page_count, last_allowed_page
    response_data,      \* SearchImages.get: response_data (post-processed in place)
    idx,                \* index of the post-processing loop
    response,           \* the HTTP response of the handler in flight
    storage,            \* identifiers of the Image records in storage
    identifier,         \* identifier of the watermark request
    image,              \* Watermark.get: watermarked pixels and metadata channels
    xmp_outcome,        \* how ccrel.embed_xmp_bytes ended
    trace,              \* external effects of the watermark request, in order
    log,                \* log.error records
    norm                \* _add_protocol applied once and twice to one input

vars == <<pc, settings, urllib_legacy, request, index, search_results, results,
          to_validate, validated, serialized_results, pagination,
          response_data, idx, response, storage, identifier, image, xmp_outcome, trace, log, norm>>

searchVars == <<search_results, results, to_validate, validated,
                serialized_results, pagination, response_data, idx>>

watermarkVars == <<image, xmp_outcome, trace, log>>

envVars == <<settings, urllib_legacy, request, index, storage, identifier>>

----------------------------------------------------------------------------
(* Bounds of the model. *)

MaxHits == 3

MaxPageSize == 48

MaxTotal == 30

MaxUrlLen == 3

MaxIds == 3

CeilingMargin == 12

(* Program constants. *)

HARD_HIT_CEILING == 5000

THUMBNAIL_WIDTH_PX == <<"6", "0", "0">>

THUMBNAIL_PROXY_URL == <<"h", "t", "t", "p", "s", ":", "/", "/", "p">>

HttpPrefix == <<"h", "t", "t", "p", ":", "/", "/">>

HttpsPrefix == <<"h", "t", "t", "p", "s", ":", "/", "/">>

DeepPaginationMessage == "Deep pagination is not allowed."

OptionalKeys == {"thumbnail", "foreign_landing_url", "creator_url"}

Providers == {"flickr", "met"}

----------------------------------------------------------------------------
(* Strings. *)

Min(a, b) == IF a <= b THEN a ELSE b

Contains(s, sub) ==
    \E i \in 1..(Len(s) - Len(sub) + 1) : SubSeq(s, i, i + Len(sub) - 1) = sub

StartsWith(s, pre) ==
    Len(s) >= Len(pre) /\ SubSeq(s, 1, Len(pre)) = pre

AlphaChars == {"a", "b", "h", "p", "s", "t"}

DigitChars == {"0", "6", "8"}

SchemeChars == AlphaChars \cup DigitChars \cup {"+", "-", "."}

\* url.find(':') + 1, 0 when there is no colon
FirstColon(url) ==
    IF \E i \in 1..Len(url) : url[i] = ":"
    THEN CHOOSE i \in 1..Len(url) :
            url[i] = ":" /\ \A j \in 1..(i - 1) : url[j] # ":"
    ELSE 0

\* urlparse(url).scheme, <<>> for ''.  The inputs are lower case and hold no
\* white space, so lower() and the stripping of newer versions change nothing.
UrlScheme(url) ==
    LET p == FirstColon(url)
        head == SubSeq(url, 1, p - 1)
        rest == SubSeq(url, p + 1, Len(url))
        allScheme == \A k \in 1..(p - 1) : url[k] \in SchemeChars
    IN  IF p <= 1 THEN <<>>
        ELSE IF urllib_legacy
        THEN IF head = <<"h", "t", "t", "p">> THEN head
             ELSE IF allScheme
                     /\ (rest = <<>>
                         \/ \E k \in 1..Len(rest) : rest[k] \notin DigitChars)
                  THEN head
                  ELSE <<>>
        ELSE IF url[1] \in AlphaChars /\ allScheme THEN head ELSE <<>>

AddProtocolUpgrade(url) ==
    IF StartsWith(url, HttpsPrefix) THEN url ELSE HttpsPrefix \o url

AddProtocol(url) ==
    IF UrlScheme(url) = <<>> THEN HttpsPrefix \o url ELSE url

----------------------------------------------------------------------------
(* Pagination limiter.  page_size / 2 is a true division, so               *)
(* (5000 + page_size / 2) / page_size is (10000 + page_size) / (2 *        *)
(* page_size) and int() of it is the floor of that quotient.  The floats   *)
(* of these sizes are exact to far below 1 / (2 * page_size), the least    *)
(* distance of a non-integral quotient from an integer, so the integer     *)
(* quotients below are what the code computes.                             *)

NaturalPageCount(total, page_size) == total \div page_size

LastAllowedPageTruncated(page_size) == HARD_HIT_CEILING \div page_size

LastAllowedPage(page_size) ==
    (2 * HARD_HIT_CEILING + page_size) \div (2 * page_size)

PageCountUncapped(total, page_size) == NaturalPageCount(total, page_size)

PageCount(total, page_size) ==
    Min(NaturalPageCount(total, page_size), LastAllowedPage(page_size))

ResultCountAlwaysTotal(total, n, page_size, page_count) == total

ResultCount(total, n, page_size, page_count) ==
    IF n < page_size /\ page_count = 0 THEN n ELSE total

----------------------------------------------------------------------------
(* Result assembly. *)

DetailUrl(id) == <<"d", id>>

\* the loop of lines 109-115, on the first n hits
RECURSIVE CollectReversed(_, _)
CollectReversed(hits, n) ==
    IF n = 0 THEN <<>>
    ELSE <<[hits[n] EXCEPT !.detail = DetailUrl(hits[n].identifier)]>>
         \o CollectReversed(hits, n - 1)

RECURSIVE Collect(_, _)
Collect(hits, n) ==
    IF n = 0 THEN <<>>
    ELSE Append(Collect(hits, n - 1),
                [hits[n] EXCEPT !.detail = DetailUrl(hits[n].identifier)])

\* validate_images(results, to_validate) with the entries at `dead` broken
RECURSIVE RemoveDead(_, _, _)
RemoveDead(rs, dead, n) ==
    IF n = 0 THEN <<>>
    ELSE IF n \in dead THEN RemoveDead(rs, dead, n - 1)
    ELSE Append(RemoveDead(rs, dead, n - 1), rs[n])

\* '{proxy_url}/{width}/{original}'
ProxiedUrl(original) ==
    THUMBNAIL_PROXY_URL \o <<"/">> \o THUMBNAIL_WIDTH_PX \o <<"/">> \o original

ToProxy(res) ==
    IF "thumbnail" \in res.keys /\ res.provider \notin settings.PROXY_ALL
    THEN "thumbnail"
    ELSE "url"

ProxyThumb(res) ==
    IF settings.PROXY_THUMBS
    THEN LET original == res[ToProxy(res)]
         IN  IF Contains(original, HttpPrefix)
                \/ res.provider \in settings.PROXY_ALL
             THEN [res EXCEPT !.thumbnail = ProxiedUrl(original),
                              !.keys = @ \cup {"thumbnail"}]
             ELSE res
    ELSE res

FixLinksForeignOnly(res) ==
    IF "foreign_landing_url" \in res.keys
    THEN [res EXCEPT !.foreign_landing_url = AddProtocol(res.foreign_landing_url)]
    ELSE res

FixLinks(res) ==
    LET r1 == IF "foreign_landing_url" \in res.keys
              THEN [res EXCEPT !.foreign_landing_url =
                                   AddProtocol(res.foreign_landing_url)]
              ELSE res
    IN  IF "creator_url" \in r1.keys
        THEN [r1 EXCEPT !.creator_url = AddProtocol(r1.creator_url)]
        ELSE r1

\* one iteration of the loop of lines 136-158
PostProcess(res) == FixLinks(ProxyThumb(res))

\* ImageSerializer(results, many=True).data: one entry per result, in order
ImageSerializerData(rs) == [i \in 1..Len(rs) |-> rs[i]]

----------------------------------------------------------------------------
(* Inputs. *)

BareUrl == <<"a">>

HttpUrl == HttpPrefix \o <<"a">>

HttpsUrl == HttpsPrefix \o <<"a">>

\* a secure URL that carries an insecure one in its query string
EmbeddedUrl == HttpsPrefix \o <<"a", "?">> \o HttpPrefix \o <<"b">>

PortUrl == <<"a", ":", "8">>

Absent == [present |-> FALSE, value |-> <<>>]

Present(S) == {[present |-> TRUE, value |-> v] : v \in S}

KeysOf(thumb, foreign, creator) ==
    (IF thumb.present THEN {"thumbnail"} ELSE {})
    \cup (IF foreign.present THEN {"foreign_landing_url"} ELSE {})
    \cup (IF creator.present THEN {"creator_url"} ELSE {})

Hit(url, thumb, provider, foreign, creator) ==
    [identifier |-> 0, url |-> url, thumbnail |-> thumb.value,
     provider |-> provider, foreign_landing_url |-> foreign.value,
     creator_url |-> creator.value, keys |-> KeysOf(thumb, foreign, creator),
     detail |-> <<>>]

PlainHit ==
    Hit(HttpsUrl, [present |-> TRUE, value |-> HttpsUrl], "flickr",
        [present |-> TRUE, value |-> HttpsUrl], Absent)

\* hits that exercise the proxy decision
ProxyHits ==
    {Hit(u, t, p, Absent, Absent) :
        u \in {BareUrl, HttpUrl, EmbeddedUrl},
        t \in {Absent} \cup Present({HttpUrl, HttpsUrl, EmbeddedUrl}),
        p \in Providers}

\* hits that exercise the link normalization
LinkHits ==
    {Hit(HttpsUrl, Absent, "flickr", f, c) :
        f \in {Absent} \cup Present({BareUrl, HttpUrl, PortUrl}),
        c \in {Absent} \cup Present({BareUrl, HttpsUrl})}

\* the ranking of n hits, identifiers in rank order, the k-th hit being h
Ranking(n, k, h) ==
    [i \in 1..n |-> [(IF i = k THEN h ELSE PlainHit) EXCEPT !.identifier = i]]

PageSizes == (1..MaxPageSize) \cup {20, 500, 9999, 10000, 10001}

Totals ==
    (0..MaxTotal)
    \cup ((HARD_HIT_CEILING - CeilingMargin)..(HARD_HIT_CEILING + CeilingMargin))
    \cup {2 * HARD_HIT_CEILING, 4 * HARD_HIT_CEILING + 1}

Identifiers == 1..MaxIds

Alphabet == {"a", ":", "/", "8"}

RECURSIVE StringsUpTo(_)
StringsUpTo(n) ==
    IF n = 0 THEN {<<>>}
    ELSE LET shorter == StringsUpTo(n - 1)
         IN  shorter \cup {Append(s, c) : s \in shorter, c \in Alphabet}

UrlStrings ==
    StringsUpTo(MaxUrlLen)
    \cup {HttpUrl, HttpsUrl, EmbeddedUrl, <<"h", "t", "t", "p", ":", "8">>}

----------------------------------------------------------------------------
(* Initial states. *)

NoResponse == [status |-> 0, content_type |-> "", data |-> "none"]

NoResponseData == [result_count |-> -1, page_count |-> -1, results |-> <<>>]

NoSearchResults == [raised |-> "none", hits |-> <<>>, total |-> 0]

NoPagination == [natural_page_count |-> -1, last_allowed_page |-> -1]

NoImage == [pixels |-> "none", exif |-> FALSE, xmp |-> FALSE]

NoNorm == [url |-> <<>>, once |-> <<>>, twice |-> <<>>, applied |-> 0]

NoRequest == [valid |-> TRUE, page_size |-> 1, filter_dead |-> FALSE]

NoIndex == [ranked |-> <<>>, total |-> 0]

DefaultSettings == [PROXY_THUMBS |-> TRUE, PROXY_ALL |-> {"met"}]

HandlerIdle ==
    /\ search_results = NoSearchResults
    /\ pagination = NoPagination
    /\ results = <<>>
    /\ to_validate = <<>>
    /\ validated = FALSE
    /\ serialized_results = <<>>
    /\ response_data = NoResponseData
    /\ idx = 0
    /\ response = NoResponse
    /\ image = NoImage
    /\ xmp_outcome = "none"
    /\ trace = <<>>
    /\ log = <<>>

\* search requests over plain hits: page sizes and hit counts vary
InitPaging ==
    /\ pc = "params"
    /\ settings = DefaultSettings
    /\ urllib_legacy = FALSE
    /\ request \in [valid : BOOLEAN, page_size : PageSizes,
                    filter_dead : BOOLEAN]
    /\ \E total \in Totals :
          index = [ranked |-> Ranking(Min(MaxHits, total), 0, PlainHit),
                   total |-> total]
    /\ storage = {}
    /\ identifier = 0
    /\ norm = NoNorm
    /\ HandlerIdle

\* search requests of one page: the fields of the hits and the settings vary
InitUrls ==
    /\ pc = "params"
    /\ settings \in [PROXY_THUMBS : BOOLEAN, PROXY_ALL : {{}, {"met"}}]
    /\ urllib_legacy \in BOOLEAN
    /\ request \in [valid : BOOLEAN, page_size : {MaxHits},
                    filter_dead : BOOLEAN]
    /\ \E k \in 1..MaxHits, h \in ProxyHits \cup LinkHits :
          index = [ranked |-> Ranking(MaxHits, k, h), total |-> MaxHits]
    /\ storage = {}
    /\ identifier = 0
    /\ norm = NoNorm
    /\ HandlerIdle

----------------------------------------------------------------------------
(* SearchImages.get *)

JsonResponse(status, data) ==
    [status |-> status, content_type |-> "application/json", data |-> data]

RejectParams ==
    /\ pc = "params"
    /\ ~request.valid
    /\ response' = JsonResponse(400, [validation_error |-> "params.errors"])
    /\ pc' = "done"
    /\ UNCHANGED <<envVars, searchVars, watermarkVars, norm>>

AcceptParams ==
    /\ pc = "params"
    /\ request.valid
    /\ pc' = "search"
    /\ UNCHANGED <<envVars, searchVars, watermarkVars, norm, response>>

\* an exception no handler catches: the framework answers 500
ServerError ==
    [status |-> 500, content_type |-> "text/html",
     data |-> [detail |-> "Server Error"]]

RefusalUncaught == ServerError

\* except ValueError
RefusalResponse == JsonResponse(400, [validation_error |-> DeepPaginationMessage])

\* search_controller.search raises ValueError
SearchRefused ==
    /\ pc = "search"
    /\ search_results' = [search_results EXCEPT !.raised = "ValueError"]
    /\ response' = RefusalResponse
    /\ pc' = "done"
    /\ UNCHANGED <<envVars, results, to_validate, validated, serialized_results,
                   pagination, response_data, idx, watermarkVars, norm>>

\* search_controller.search returns one page of at most page_size hits
SearchReturns ==
    /\ pc = "search"
    /\ \E n \in 0..Min(Len(index.ranked), request.page_size) :
          search_results' = [raised |-> "none",
                             hits |-> SubSeq(index.ranked, 1, n),
                             total |-> index.total]
    /\ pc' = "collect"
    /\ UNCHANGED <<envVars, results, to_validate, validated, serialized_results,
                   pagination, response_data, idx, watermarkVars, norm, response>>

CollectResults ==
    /\ pc = "collect"
    /\ results' = Collect(search_results.hits, Len(search_results.hits))
    /\ to_validate' = [i \in 1..Len(search_results.hits) |->
                          search_results.hits[i].url]
    /\ pc' = "filter"
    /\ UNCHANGED <<envVars, search_results, validated, serialized_results,
                   pagination, response_data, idx, watermarkVars, norm, response>>

ValidateImages ==
    /\ pc = "filter"
    /\ request.filter_dead
    /\ \E dead \in SUBSET (1..Len(results)) :
          /\ results' = RemoveDead(results, dead, Len(results))
          /\ serialized_results' =
                 ImageSerializerData(RemoveDead(results, dead, Len(results)))
    /\ validated' = TRUE
    /\ pc' = "count"
    /\ UNCHANGED <<envVars, search_results, to_validate, pagination,
                   response_data, idx, watermarkVars, norm, response>>

SkipValidation ==
    /\ pc = "filter"
    /\ ~request.filter_dead
    /\ serialized_results' = ImageSerializerData(results)
    /\ pc' = "count"
    /\ UNCHANGED <<envVars, search_results, results, to_validate, validated,
                   pagination, response_data, idx, watermarkVars, norm, response>>

ComputeCounts ==
    /\ pc = "count"
    /\ pagination' =
           [natural_page_count |->
                NaturalPageCount(search_results.total, request.page_size),
            last_allowed_page |-> LastAllowedPage(request.page_size)]
    /\ LET page_count == PageCount(search_results.total, request.page_size)
       IN  response_data' =
               [result_count |-> ResultCount(search_results.total, Len(results),
                                             request.page_size, page_count),
                page_count |-> page_count,
                results |-> serialized_results]
    /\ idx' = 1
    /\ pc' = "post"
    /\ UNCHANGED <<envVars, search_results, results, to_validate, validated,
                   serialized_results, watermarkVars, norm, response>>

PostProcessResult ==
    /\ pc = "post"
    /\ idx <= Len(serialized_results)
    /\ response_data' =
           [response_data EXCEPT !.results[idx] =
                                     PostProcess(serialized_results[idx])]
    /\ idx' = idx + 1
    /\ UNCHANGED <<pc, envVars, search_results, results, to_validate, validated,
                   serialized_results, pagination, watermarkVars, norm, response>>

Respond ==
    /\ pc = "post"
    /\ idx > Len(serialized_results)
    /\ response' = JsonResponse(200, response_data)
    /\ pc' = "done"
    /\ UNCHANGED <<envVars, searchVars, watermarkVars, norm>>

NextSearch ==
    \/ RejectParams
    \/ AcceptParams
    \/ SearchRefused
    \/ SearchReturns
    \/ CollectResults
    \/ ValidateImages
    \/ SkipValidation
    \/ ComputeCounts
    \/ PostProcessResult
    \/ Respond

SpecPaging == InitPaging /\ [][NextSearch]_vars

SpecUrls == InitUrls /\ [][NextSearch]_vars

----------------------------------------------------------------------------
(* Watermark.get *)

InitWatermark ==
    /\ pc = "lookup"
    /\ settings = DefaultSettings
    /\ urllib_legacy = FALSE
    /\ request = NoRequest
    /\ index = NoIndex
    /\ storage \in SUBSET Identifiers
    /\ identifier \in Identifiers
    /\ norm = NoNorm
    /\ HandlerIdle

RecordAlwaysFound == TRUE

\* Image.objects.get(identifier=identifier) does not raise Image.DoesNotExist
RecordFound == identifier \in storage

\* the exceptions the except clause of line 254 names
CaughtXmpErrors == {"XMPError", "AttributeError"}

\* the ways ccrel.embed_xmp_bytes can fail: the library's error, a malformed
\* embedding state, and any other exception (OSError of its temporary file,
\* TypeError on a null provenance field)
XmpErrors == CaughtXmpErrors \cup {"OSError"}

ImageResponse(img) ==
    [status |-> 200, content_type |-> "image/jpeg", data |-> img]

LookupMissing ==
    /\ pc = "lookup"
    /\ ~RecordFound
    /\ trace' = Append(trace, "lookup")
    /\ response' = [status |-> 404, content_type |-> "application/json",
                    data |-> [detail |-> "Not Found"]]
    /\ pc' = "done"
    /\ UNCHANGED <<envVars, searchVars, image, xmp_outcome, log, norm>>

LookupFound ==
    /\ pc = "lookup"
    /\ RecordFound
    /\ trace' = Append(trace, "lookup")
    /\ pc' = "render"
    /\ UNCHANGED <<envVars, searchVars, image, xmp_outcome, log, norm, response>>

\* watermark(image_url, image_info) fetches the source and draws the overlay
WatermarkRendered ==
    /\ pc = "render"
    /\ trace' = Append(trace, "fetch")
    /\ image' = [pixels |-> "watermarked", exif |-> FALSE, xmp |-> FALSE]
    /\ pc' = "exif"
    /\ UNCHANGED <<envVars, searchVars, xmp_outcome, log, norm, response>>

\* the source cannot be fetched or decoded: the exception propagates
WatermarkFails ==
    /\ pc = "render"
    /\ trace' = Append(trace, "fetch")
    /\ response' = ServerError
    /\ pc' = "done"
    /\ UNCHANGED <<envVars, searchVars, image, xmp_outcome, log, norm>>

\* piexif.dump(exif) and watermarked.save(img_bytes, 'jpeg', exif=exif_bytes)
ExifEncoded ==
    /\ pc = "exif"
    /\ trace' = Append(trace, "exif")
    /\ image' = [image EXCEPT !.exif = TRUE]
    /\ pc' = "xmp"
    /\ UNCHANGED <<envVars, searchVars, xmp_outcome, log, norm, response>>

ExifFails ==
    /\ pc = "exif"
    /\ response' = ServerError
    /\ pc' = "done"
    /\ UNCHANGED <<envVars, searchVars, watermarkVars, norm>>

\* ccrel.embed_xmp_bytes returns: FileResponse(with_xmp)
XmpEmbedded ==
    /\ pc = "xmp"
    /\ xmp_outcome' = "ok"
    /\ trace' = Append(trace, "xmp")
    /\ response' = ImageResponse([image EXCEPT !.xmp = TRUE])
    /\ pc' = "done"
    /\ UNCHANGED <<envVars, searchVars, image, log, norm>>

\* ccrel.embed_xmp_bytes raises an exception of the except clause: both
\* log.error calls, then the watermarked image saved again with the EXIF block
XmpFailsCaught ==
    /\ pc = "xmp"
    /\ \E e \in CaughtXmpErrors :
          /\ xmp_outcome' = e
          /\ log' = log \o <<[message |-> "Failed to add XMP metadata to",
                              identifier |-> identifier],
                             [message |-> e, identifier |-> 0]>>
    /\ response' = ImageResponse(image)
    /\ pc' = "done"
    /\ UNCHANGED <<envVars, searchVars, image, trace, norm>>

\* ccrel.embed_xmp_bytes raises any other exception: nothing catches it
XmpFailsUncaught ==
    /\ pc = "xmp"
    /\ \E e \in XmpErrors \ CaughtXmpErrors : xmp_outcome' = e
    /\ response' = ServerError
    /\ pc' = "done"
    /\ UNCHANGED <<envVars, searchVars, image, trace, log, norm>>

NextWatermark ==
    \/ LookupMissing
    \/ LookupFound
    \/ WatermarkRendered
    \/ WatermarkFails
    \/ ExifEncoded
    \/ ExifFails
    \/ XmpEmbedded
    \/ XmpFailsCaught
    \/ XmpFailsUncaught

SpecWatermark == InitWatermark /\ [][NextWatermark]_vars

----------------------------------------------------------------------------
(* _add_protocol on its own *)

InitNormalizer ==
    /\ pc = "normalize"
    /\ settings = DefaultSettings
    /\ urllib_legacy \in BOOLEAN
    /\ request = NoRequest
    /\ index = NoIndex
    /\ storage = {}
    /\ identifier = 0
    /\ \E u \in UrlStrings : norm = [NoNorm EXCEPT !.url = u]
    /\ HandlerIdle

ApplyOnce ==
    /\ pc = "normalize"
    /\ norm.applied = 0
    /\ norm' = [norm EXCEPT !.once = AddProtocol(norm.url), !.applied = 1]
    /\ UNCHANGED <<pc, envVars, searchVars, watermarkVars, response>>

ApplyAgain ==
    /\ pc = "normalize"
    /\ norm.applied = 1
    /\ norm' = [norm EXCEPT !.twice = AddProtocol(norm.once), !.applied = 2]
    /\ UNCHANGED <<pc, envVars, searchVars, watermarkVars, response>>

NextNormalizer ==
    \/ ApplyOnce
    \/ ApplyAgain

SpecNormalizer == InitNormalizer /\ [][NextNormalizer]_vars

----------------------------------------------------------------------------
(* Properties. *)

Answered == pc = "done" /\ response.status = 200 /\ search_results.raised = "none"
                /\ response.content_type = "application/json"

\* C1: for every total_hits >= 0 and page_size > 0 the page_count of the
\* response is min(floor(total_hits / page_size), floor((5000 + page_size/2) /
\* page_size)): it is at most either quotient and equal to one of them.  The
\* floors are stated by their defining inequalities, the second one doubled.
C1_PageCountIsCappedFloor ==
    Answered =>
        LET c == response.data.page_count
            t == search_results.total
            s == request.page_size
        IN  /\ c >= 0
            /\ c * s <= t
            /\ 2 * c * s <= 2 * HARD_HIT_CEILING + s
            /\ \/ (c + 1) * s > t
               \/ 2 * (c + 1) * s > 2 * HARD_HIT_CEILING + s

\* C1 witness: a response whose page_count is the cap, below the natural count
C1_CappedBelowNatural ==
    /\ Answered
    /\ response.data.page_count > 0
    /\ (response.data.page_count + 1) * request.page_size <= search_results.total

\* C2: result_count is the number of results returned when that number is
\* below page_size and page_count is 0, and the index's raw total otherwise.
C2_ResultCount ==
    Answered =>
        LET d == response.data
        IN  IF Len(d.results) < request.page_size /\ d.page_count = 0
            THEN d.result_count = Len(d.results)
            ELSE d.result_count = index.total

\* C2 witness: fewer results than the raw total are returned on a request with
\* no full page, and result_count is their number
C2_ShortPageCounted ==
    /\ Answered
    /\ response.data.page_count = 0
    /\ Len(response.data.results) < index.total
    /\ response.data.result_count = Len(response.data.results)

\* C4: when the search call raises its refusal the endpoint answers 400 with
\* validation_error 'Deep pagination is not allowed.', and nothing of the
\* assembly has run: no dead-link filtering, no counts, no results.
C4_RefusalIsValidationError ==
    search_results.raised = "ValueError" =>
        /\ pc = "done"
        /\ response.status = 400
        /\ response.data = [validation_error |-> DeepPaginationMessage]
        /\ ~validated
        /\ pagination = NoPagination
        /\ response_data = NoResponseData
        /\ results = <<>> /\ serialized_results = <<>>

\* C4 witness: a refused search has been answered
C4_Refused == search_results.raised = "ValueError" /\ response.status = 400

\* the rank the index gave the hit with this identifier
RankOf(id) == CHOOSE k \in 1..Len(index.ranked) : index.ranked[k].identifier = id

\* C9: the results of a response are hits of the index in the index's order:
\* of two results the one ranked earlier comes first.
C9_RelevanceOrderKept ==
    Answered =>
        LET rs == response.data.results
        IN  /\ \A i \in 1..Len(rs) :
                  \E k \in 1..Len(index.ranked) :
                      index.ranked[k].identifier = rs[i].identifier
            /\ \A i, j \in 1..Len(rs) :
                  i < j => RankOf(rs[i].identifier) < RankOf(rs[j].identifier)

\* C9 witness: dead-link filtering removed the middle one of three hits
C9_FilteredSurvivors ==
    /\ Answered
    /\ validated
    /\ Len(search_results.hits) = 3
    /\ Len(response.data.results) = 2
    /\ response.data.results[1].identifier = search_results.hits[1].identifier
    /\ response.data.results[2].identifier = search_results.hits[3].identifier

\* C10: last_allowed_page is the ceiling rounded to the nearest page boundary,
\* |last_allowed_page * page_size - 5000| <= page_size / 2, and the deepest
\* offset page_count * page_size is at most 5000 + page_size / 2 (both doubled).
C10_CeilingRoundedToNearestPage ==
    pagination # NoPagination =>
        LET s == request.page_size
            reach == pagination.last_allowed_page * s
        IN  /\ 2 * (reach - HARD_HIT_CEILING) <= s
            /\ 2 * (HARD_HIT_CEILING - reach) <= s
            /\ 2 * response_data.page_count * s <= 2 * HARD_HIT_CEILING + s

\* C10 witness: the pages of a response reach beyond the ceiling
C10_ReachBeyondCeiling ==
    /\ Answered
    /\ response.data.page_count = pagination.last_allowed_page
    /\ response.data.page_count * request.page_size > HARD_HIT_CEILING

----------------------------------------------------------------------------
(* Properties of the post-processing, under SpecUrls. *)

\* the field the proxy decision looks at, of a result as serialized
TargetValue(o) ==
    IF "thumbnail" \in o.keys /\ o.provider \notin settings.PROXY_ALL
    THEN o.thumbnail
    ELSE o.url

SameThumbnail(o, r) ==
    /\ ("thumbnail" \in r.keys) = ("thumbnail" \in o.keys)
    /\ r.thumbnail = o.thumbnail

\* C5: the thumbnail of a result is '{THUMBNAIL_PROXY_URL}/600/{target}' if
\* and only if PROXY_THUMBS is set and the target field uses the insecure
\* http:// scheme or the provider is in PROXY_ALL; otherwise it is left as
\* the serializer produced it.
C5_ProxiedIffInsecureScheme ==
    Answered =>
        \A i \in 1..Len(response.data.results) :
            LET o == serialized_results[i]
                r == response.data.results[i]
                t == TargetValue(o)
            IN  IF settings.PROXY_THUMBS
                   /\ (StartsWith(t, HttpPrefix)
                       \/ o.provider \in settings.PROXY_ALL)
                THEN "thumbnail" \in r.keys /\ r.thumbnail = ProxiedUrl(t)
                ELSE SameThumbnail(o, r)

HasScheme(url) == UrlScheme(url) # <<>>

Normalized(before, after) ==
    /\ HasScheme(after)
    /\ HasScheme(before) => after = before
    /\ ~HasScheme(before) => after = HttpsPrefix \o before

\* C6 as claimed: after assembly url, foreign_landing_url and creator_url of
\* every result, when present, carry a scheme, a scheme-less value having
\* been prefixed with 'https://'.
C6_ThreeFieldsNormalized ==
    Answered =>
        \A i \in 1..Len(response.data.results) :
            LET o == serialized_results[i]
                r == response.data.results[i]
            IN  /\ Normalized(o.url, r.url)
                /\ "foreign_landing_url" \in o.keys =>
                       Normalized(o.foreign_landing_url, r.foreign_landing_url)
                /\ "creator_url" \in o.keys =>
                       Normalized(o.creator_url, r.creator_url)

\* C6 as amended: foreign_landing_url and creator_url of every result, when
\* present, carry a scheme after assembly, a scheme-less value having been
\* prefixed with 'https://'; url is returned as the serializer produced it.
C6_LinkFieldsNormalized ==
    Answered =>
        \A i \in 1..Len(response.data.results) :
            LET o == serialized_results[i]
                r == response.data.results[i]
            IN  /\ r.url = o.url
                /\ r.keys \ {"thumbnail"} = o.keys \ {"thumbnail"}
                /\ "foreign_landing_url" \in o.keys =>
                       Normalized(o.foreign_landing_url, r.foreign_landing_url)
                /\ "creator_url" \in o.keys =>
                       Normalized(o.creator_url, r.creator_url)

\* C6 witness: a result whose scheme-less creator_url came out prefixed
C6_CreatorUrlPrefixed ==
    /\ Answered
    /\ \E i \in 1..Len(response.data.results) :
          /\ "creator_url" \in serialized_results[i].keys
          /\ ~HasScheme(serialized_results[i].creator_url)
          /\ response.data.results[i].creator_url =
                 HttpsPrefix \o serialized_results[i].creator_url

----------------------------------------------------------------------------
(* Properties of _add_protocol, under SpecNormalizer. *)

\* C7: _add_protocol returns 'https://' + input when the input has no scheme
\* and the input itself when it has one (http:// is not upgraded); applying
\* it twice gives what applying it once gives.
C7_AddProtocol ==
    /\ norm.applied >= 1 =>
          /\ ~HasScheme(norm.url) => norm.once = HttpsPrefix \o norm.url
          /\ HasScheme(norm.url) => norm.once = norm.url
          /\ norm.url = HttpUrl => norm.once = HttpUrl
          /\ norm.url = BareUrl => norm.once = HttpsUrl
    /\ norm.applied = 2 => norm.twice = norm.once

\* C7 witness: a scheme-less input, prefixed once and left alone after that
C7_PrefixedOnce ==
    /\ norm.applied = 2
    /\ ~HasScheme(norm.url)
    /\ norm.url # <<>>
    /\ norm.twice = HttpsPrefix \o norm.url

----------------------------------------------------------------------------
(* Properties of the watermark endpoint, under SpecWatermark. *)

Occurs(event) == \E i \in 1..Len(trace) : trace[i] = event

\* C8: a watermark request for an identifier absent from storage ends with
\* 404, fetches no source image and writes neither metadata channel; the
\* lookup precedes every fetch, and a fetch happens only for a record found.
C8_NoFetchForUnknownIdentifier ==
    /\ (pc = "done" /\ identifier \notin storage) =>
          /\ response.status = 404
          /\ ~Occurs("fetch") /\ ~Occurs("exif") /\ ~Occurs("xmp")
          /\ ~image.exif /\ ~image.xmp
    /\ \A i \in 1..Len(trace) :
          trace[i] = "fetch" =>
              /\ identifier \in storage
              /\ \E j \in 1..(i - 1) : trace[j] = "lookup"

\* C8 witness: a request for an unknown identifier has been answered
C8_UnknownAnswered ==
    pc = "done" /\ identifier \notin storage /\ response.status = 404

\* C3: whenever embedding the XMP block fails, whatever the failure, after the
\* EXIF block was written, the request ends in a 200 image/jpeg response that
\* carries the watermarked image with the EXIF block only, the failure is
\* logged with the identifier, and the caller sees no error.
C3_AnyXmpFailureFallsBack ==
    (pc = "done" /\ xmp_outcome \in XmpErrors) =>
        /\ response.status = 200
        /\ response.content_type = "image/jpeg"
        /\ response.data = [pixels |-> "watermarked", exif |-> TRUE,
                            xmp |-> FALSE]
        /\ \E i \in 1..Len(log) : log[i].identifier = identifier

====
